---- MODULE Spec2Model ----
(***************************************************************************)
(* Model of the in-memory book store of server/main.go: the BookServer     *)
(* with its map books (id -> *pb.Book), its idCounter and its RWMutex mu,  *)
(* called concurrently by several request goroutines.                      *)
(*                                                                         *)
(* The map holds POINTERS to pb.Book messages, so the model has a heap of  *)
(* Book objects and the map holds references into it; a request carries a  *)
(* reference to the caller's Book object.                                  *)
(***************************************************************************)
EXTENDS Integers, Sequences, FiniteSets, TLC

(***************************************************************************)
(* Bounds of the model.                                                    *)
(***************************************************************************)
\* number of goroutines calling the server concurrently
NumProcs == 2
\* total number of calls issued in one behaviour
MaxCalls == 3

Procs == 1..NumProcs

(***************************************************************************)
(* float64 prices: a finite value (in cents) or NaN.  Every comparison     *)
(* with NaN is false, as in Go.                                            *)
(***************************************************************************)
F(v) == [nan |-> FALSE, v |-> v]
NaN == [nan |-> TRUE, v |-> 0]
FLeq(a, b) == ~a.nan /\ ~b.nan /\ a.v <= b.v
FLt(a, b) == ~a.nan /\ ~b.nan /\ a.v < b.v

(***************************************************************************)
(* pb.Book messages the callers build.  ClientBooks is the heap as the     *)
(* callers have filled it before any call: object i is ClientBooks[i].     *)
(***************************************************************************)
Book(id, title, author, price, description, publishYear) ==
    [id |-> id, title |-> title, author |-> author, price |-> price,
     description |-> description, publishYear |-> publishYear]

ClientBooks ==
    << Book("", "Go", "Ann", F(2999), "intro", 2023),
       Book("book-1", "Rust", "Bob", F(3999), "", 0),
       Book("isbn-0", "Go", "Ann", F(1999), "x", 2020),
       Book("book-1", "", "Ann", F(2999), "", 2023),
       Book("book-1", "Go", "", F(2999), "", 2023),
       Book("book-1", "Go", "Ann", F(0), "", 2023) >>

Refs == 1..Len(ClientBooks)

\* ids the callers pass to GetBook and DeleteBook
InputIds == {"", "book-1", "book-2", "isbn-0"}

OK == "OK"
InvalidArgument == "InvalidArgument"
NotFound == "NotFound"

VARIABLES
    books,      \* s.books: function from the ids present to references
    idCounter,  \* s.idCounter
    mu,         \* s.mu: [writer: the goroutine that holds or has claimed Lock, or 0,
                \*        readers: the goroutines holding RLock]
    heap,       \* the pb.Book objects, by reference
    pc,         \* per goroutine: "idle", "lock" (validated, about to take mu), "wait"
                \* (a writer inside Lock, waiting for the readers to leave), "cs" (holds mu)
    req,        \* per goroutine: the request of the call in progress
    ncalls,     \* history: the number of calls started
    last,       \* history: the call that returned last
    lastWrite,  \* history: the successful CreateBook, UpdateBook or DeleteBook that returned last
    created,    \* history: the successful CreateBook calls, in order of return
    deleted,    \* history: per id, the number of successful DeleteBook calls
    updated,    \* history: the ids of the successful UpdateBook calls
    failedCreates  \* history: the number of CreateBook calls that returned an error

hist == <<last, lastWrite, created, deleted, updated, failedCreates>>
vars == <<books, idCounter, mu, heap, pc, req, ncalls, hist>>

\* a request: the Book reference (CreateBook, UpdateBook), the id (GetBook,
\* DeleteBook), page and pageSize (ListBooks), the price range (SearchBooksByPrice)
Req(op, book, id) ==
    [op |-> op, book |-> book, id |-> id, page |-> 0, pageSize |-> 0,
     minPrice |-> F(0), maxPrice |-> F(0)]
ListReq(page, pageSize) ==
    [op |-> "ListBooks", book |-> 0, id |-> "", page |-> page, pageSize |-> pageSize,
     minPrice |-> F(0), maxPrice |-> F(0)]
SearchReq(minPrice, maxPrice) ==
    [op |-> "SearchBooksByPrice", book |-> 0, id |-> "", page |-> 0, pageSize |-> 0,
     minPrice |-> minPrice, maxPrice |-> maxPrice]
NoReq == Req("none", 0, "")

NoBook == Book("", "", "", F(0), "", 0)

\* one returned call: what was asked and what came back.  book is the Book
\* reference passed or returned, input the value of the passed Book when the
\* call read it, list and total the answer of a query.
Entry(op, code, msg, id, book, input) ==
    [op |-> op, code |-> code, msg |-> msg, id |-> id,
     book |-> book, input |-> input, list |-> << >>, total |-> 0,
     page |-> 0, pageSize |-> 0, minPrice |-> F(0), maxPrice |-> F(0)]
NoEntry == Entry("none", OK, "", "", 0, NoBook)
ListEntry(r, list, total) ==
    [Entry("ListBooks", OK, "", "", 0, NoBook) EXCEPT
        !.list = list, !.total = total, !.page = r.page, !.pageSize = r.pageSize]
SearchEntry(code, msg, minPrice, maxPrice, list) ==
    [Entry("SearchBooksByPrice", code, msg, "", 0, NoBook) EXCEPT
        !.list = list, !.minPrice = minPrice, !.maxPrice = maxPrice]

Init ==
    /\ books = [k \in {} |-> 0]
    /\ idCounter = 0
    /\ mu = [writer |-> 0, readers |-> {}]
    /\ heap = ClientBooks
    /\ pc = [p \in Procs |-> "idle"]
    /\ req = [p \in Procs |-> NoReq]
    /\ ncalls = 0
    /\ last = NoEntry
    /\ lastWrite = NoEntry
    /\ created = << >>
    /\ deleted = [k \in {} |-> 0]
    /\ updated = {}
    /\ failedCreates = 0

\* A call runs in a goroutine of its own (one per inbound RPC): it takes the
\* first free slot of Procs, while the budget of calls lasts.
CanCall(p) ==
    /\ pc[p] = "idle"
    /\ \A q \in Procs : q < p => pc[q] # "idle"
    /\ ncalls < MaxCalls

IsWrite(e) == e.code = OK /\ e.op \in {"CreateBook", "UpdateBook", "DeleteBook"}

\* the history of returned calls
Record(e) ==
    /\ last' = e
    /\ lastWrite' = IF IsWrite(e) THEN e ELSE lastWrite
    /\ created' = IF e.op = "CreateBook" /\ e.code = OK THEN Append(created, e) ELSE created
    /\ deleted' = IF e.op = "DeleteBook" /\ e.code = OK
                  THEN [k \in DOMAIN deleted \cup {e.id} |->
                          IF k \in DOMAIN deleted
                          THEN deleted[k] + (IF k = e.id THEN 1 ELSE 0)
                          ELSE 1]
                  ELSE deleted
    /\ updated' = IF e.op = "UpdateBook" /\ e.code = OK THEN updated \cup {e.id} ELSE updated
    /\ failedCreates' = failedCreates + (IF e.op = "CreateBook" /\ e.code # OK THEN 1 ELSE 0)

\* return with an error before the lock is taken
Fail(p, e) ==
    /\ ncalls' = ncalls + 1
    /\ Record(e)
    /\ UNCHANGED <<books, idCounter, mu, heap, pc, req>>

\* validation passed: go on to take the lock
Proceed(p, r) ==
    /\ ncalls' = ncalls + 1
    /\ pc' = [pc EXCEPT ![p] = "lock"]
    /\ req' = [req EXCEPT ![p] = r]
    /\ UNCHANGED <<books, idCounter, mu, heap, hist>>

(***************************************************************************)
(* sync.RWMutex.  A goroutine that calls Lock first excludes the other     *)
(* writers and every RLock that comes after it, then waits until the       *)
(* readers that hold the lock have left ("If any goroutine calls Lock      *)
(* while the lock is already held by one or more readers, concurrent calls *)
(* to RLock will block until the writer has acquired (and released) the    *)
(* lock").                                                                 *)
(***************************************************************************)
IsWriter(op) == op \in {"CreateBook", "UpdateBook", "DeleteBook"}

\* Lock is called: the writer claims the lock; later RLock calls block
LockPending(p) ==
    /\ pc[p] = "lock"
    /\ IsWriter(req[p].op)
    /\ mu.writer = 0
    /\ mu' = [mu EXCEPT !.writer = p]
    /\ pc' = [pc EXCEPT ![p] = "wait"]
    /\ UNCHANGED <<books, idCounter, heap, req, ncalls, hist>>

\* mutant: the writer does not wait for the readers to leave
Lock_overreaders(p) ==
    /\ pc[p] = "wait"
    /\ mu.writer = p
    /\ pc' = [pc EXCEPT ![p] = "cs"]
    /\ UNCHANGED <<books, idCounter, mu, heap, req, ncalls, hist>>

\* Lock returns: the readers have left
Lock(p) ==
    /\ pc[p] = "wait"
    /\ mu.writer = p
    /\ mu.readers = {}
    /\ pc' = [pc EXCEPT ![p] = "cs"]
    /\ UNCHANGED <<books, idCounter, mu, heap, req, ncalls, hist>>

\* mutant: RLock does not wait for the writer that holds the lock
RLock_overwriter(p) ==
    /\ pc[p] = "lock"
    /\ ~IsWriter(req[p].op)
    /\ mu' = [mu EXCEPT !.readers = @ \cup {p}]
    /\ pc' = [pc EXCEPT ![p] = "cs"]
    /\ UNCHANGED <<books, idCounter, heap, req, ncalls, hist>>

\* mutant: a reader-preferring lock, RLock passes a writer that waits
RLock_barging(p) ==
    /\ pc[p] = "lock"
    /\ ~IsWriter(req[p].op)
    /\ \A q \in Procs : mu.writer = q => pc[q] = "wait"
    /\ mu' = [mu EXCEPT !.readers = @ \cup {p}]
    /\ pc' = [pc EXCEPT ![p] = "cs"]
    /\ UNCHANGED <<books, idCounter, heap, req, ncalls, hist>>

RLock(p) ==
    /\ pc[p] = "lock"
    /\ ~IsWriter(req[p].op)
    /\ mu.writer = 0
    /\ mu' = [mu EXCEPT !.readers = @ \cup {p}]
    /\ pc' = [pc EXCEPT ![p] = "cs"]
    /\ UNCHANGED <<books, idCounter, heap, req, ncalls, hist>>

\* the deferred Unlock / RUnlock and the return of the call
Return(p, e) ==
    /\ mu' = [writer |-> IF mu.writer = p THEN 0 ELSE mu.writer,
              readers |-> mu.readers \ {p}]
    /\ pc' = [pc EXCEPT ![p] = "idle"]
    /\ req' = [req EXCEPT ![p] = NoReq]
    /\ Record(e)
    /\ UNCHANGED ncalls

(***************************************************************************)
(* generateID                                                              *)
(***************************************************************************)
\* mutant: the counter is read but not advanced
generateID_noinc(counter) ==
    [idCounter |-> counter, id |-> "book-" \o ToString(counter + 1)]

generateID(counter) ==
    [idCounter |-> counter + 1, id |-> "book-" \o ToString(counter + 1)]

(***************************************************************************)
(* CreateBook                                                              *)
(***************************************************************************)
\* mutant: the author is checked before the title
CreateBookValidate_authorfirst(book) ==
    IF book.author = "" THEN "author"
    ELSE IF book.title = "" THEN "title"
    ELSE IF FLeq(book.price, F(0)) THEN "price"
    ELSE ""

CreateBookValidate(book) ==
    IF book.title = "" THEN "title"
    ELSE IF book.author = "" THEN "author"
    ELSE IF FLeq(book.price, F(0)) THEN "price"
    ELSE ""

\* mutant: the id is generated before the validation, so a rejected request
\* uses up a counter value
CreateBook_early(p, b) ==
    /\ CanCall(p)
    /\ LET msg == CreateBookValidate(heap[b]) IN
       IF msg # ""
       THEN /\ idCounter' = generateID(idCounter).idCounter
            /\ ncalls' = ncalls + 1
            /\ Record(Entry("CreateBook", InvalidArgument, msg, "", b, heap[b]))
            /\ UNCHANGED <<books, mu, heap, pc, req>>
       ELSE Proceed(p, Req("CreateBook", b, ""))

CreateBook(p, b) ==
    /\ CanCall(p)
    /\ LET msg == CreateBookValidate(heap[b]) IN
       IF msg # ""
       THEN Fail(p, Entry("CreateBook", InvalidArgument, msg, "", b, heap[b]))
       ELSE Proceed(p, Req("CreateBook", b, ""))

Put(m, k, v) == [x \in DOMAIN m \cup {k} |-> IF x = k THEN v ELSE m[x]]

CreateBookLocked(p) ==
    /\ pc[p] = "cs"
    /\ req[p].op = "CreateBook"
    /\ LET b == req[p].book
           g == generateID(idCounter)
       IN /\ idCounter' = g.idCounter
          /\ heap' = [heap EXCEPT ![b].id = g.id]
          /\ books' = Put(books, g.id, b)
          /\ Return(p, Entry("CreateBook", OK, "", g.id, b, heap[b]))

(***************************************************************************)
(* GetBook                                                                 *)
(***************************************************************************)
GetBook(p, id) ==
    /\ CanCall(p)
    /\ IF id = ""
       THEN Fail(p, Entry("GetBook", InvalidArgument, "id", id, 0, NoBook))
       ELSE Proceed(p, Req("GetBook", 0, id))

\* the lookup s.books[id]
GetBookLookup(bks, id) ==
    IF id \notin DOMAIN bks
    THEN [code |-> NotFound, book |-> 0]
    ELSE [code |-> OK, book |-> bks[id]]

\* mutant: the call returns without RUnlock
GetBookLocked_leak(p) ==
    /\ pc[p] = "cs"
    /\ req[p].op = "GetBook"
    /\ pc' = [pc EXCEPT ![p] = "idle"]
    /\ req' = [req EXCEPT ![p] = NoReq]
    /\ LET r == GetBookLookup(books, req[p].id)
       IN Record(Entry("GetBook", r.code, "", req[p].id, r.book,
                       IF r.book = 0 THEN NoBook ELSE heap[r.book]))
    /\ UNCHANGED <<books, idCounter, mu, heap, ncalls>>

GetBookLocked(p) ==
    /\ pc[p] = "cs"
    /\ req[p].op = "GetBook"
    /\ LET r == GetBookLookup(books, req[p].id)
       IN Return(p, Entry("GetBook", r.code, "", req[p].id, r.book,
                          IF r.book = 0 THEN NoBook ELSE heap[r.book]))
    /\ UNCHANGED <<books, idCounter, heap>>

(***************************************************************************)
(* UpdateBook                                                              *)
(***************************************************************************)
UpdateBookValidate(book) ==
    IF book.id = "" THEN "id"
    ELSE IF book.title = "" THEN "title"
    ELSE IF book.author = "" THEN "author"
    ELSE IF FLeq(book.price, F(0)) THEN "price"
    ELSE ""

UpdateBook(p, b) ==
    /\ CanCall(p)
    /\ LET msg == UpdateBookValidate(heap[b]) IN
       IF msg # ""
       THEN Fail(p, Entry("UpdateBook", InvalidArgument, msg, heap[b].id, b, heap[b]))
       ELSE Proceed(p, Req("UpdateBook", b, ""))

\* the existence check and the replacement s.books[book.GetId()] = book
\* mutant: no existence check, the record is stored under its id in any case
UpdateBookStore_upsert(bks, id, b) ==
    [code |-> IF id \notin DOMAIN bks THEN NotFound ELSE OK, books |-> Put(bks, id, b)]

\* mutant: success is reported but the stored record stays
UpdateBookStore_keep(bks, id, b) ==
    [code |-> IF id \notin DOMAIN bks THEN NotFound ELSE OK, books |-> bks]

UpdateBookStore(bks, id, b) ==
    IF id \notin DOMAIN bks
    THEN [code |-> NotFound, books |-> bks]
    ELSE [code |-> OK, books |-> Put(bks, id, b)]

UpdateBookLocked(p) ==
    /\ pc[p] = "cs"
    /\ req[p].op = "UpdateBook"
    /\ LET b == req[p].book
           id == heap[b].id
           r == UpdateBookStore(books, id, b)
       IN /\ books' = r.books
          /\ Return(p, Entry("UpdateBook", r.code, "", id, b, heap[b]))
    /\ UNCHANGED <<idCounter, heap>>

(***************************************************************************)
(* DeleteBook                                                              *)
(***************************************************************************)
DeleteBook(p, id) ==
    /\ CanCall(p)
    /\ IF id = ""
       THEN Fail(p, Entry("DeleteBook", InvalidArgument, "id", id, 0, NoBook))
       ELSE Proceed(p, Req("DeleteBook", 0, id))

\* the existence check and delete(s.books, id)
\* mutant: the entry is not removed
DeleteBookStore_keep(bks, id) ==
    [code |-> IF id \notin DOMAIN bks THEN NotFound ELSE OK, books |-> bks]

\* mutant: no existence check, deleting an absent id succeeds
DeleteBookStore_idempotent(bks, id) ==
    [code |-> OK, books |-> [k \in DOMAIN bks \ {id} |-> bks[k]]]

DeleteBookStore(bks, id) ==
    IF id \notin DOMAIN bks
    THEN [code |-> NotFound, books |-> bks]
    ELSE [code |-> OK, books |-> [k \in DOMAIN bks \ {id} |-> bks[k]]]

\* mutant: a delete rewinds the counter
DeleteBookLocked_rewind(p) ==
    /\ pc[p] = "cs"
    /\ req[p].op = "DeleteBook"
    /\ LET r == DeleteBookStore(books, req[p].id)
       IN /\ books' = r.books
          /\ idCounter' = IF r.code = OK THEN idCounter - 1 ELSE idCounter
          /\ Return(p, Entry("DeleteBook", r.code, "", req[p].id, 0, NoBook))
    /\ UNCHANGED heap

DeleteBookLocked(p) ==
    /\ pc[p] = "cs"
    /\ req[p].op = "DeleteBook"
    /\ LET r == DeleteBookStore(books, req[p].id)
       IN /\ books' = r.books
          /\ Return(p, Entry("DeleteBook", r.code, "", req[p].id, 0, NoBook))
    /\ UNCHANGED <<idCounter, heap>>

(***************************************************************************)
(* Iteration over the map: Go ranges over a map in an unspecified order,   *)
(* so a range is any enumeration of the keys, each once.                   *)
(***************************************************************************)
RangeOrders(bks) ==
    {o \in [1..Cardinality(DOMAIN bks) -> DOMAIN bks] :
        \A i, j \in DOMAIN o : i # j => o[i] # o[j]}

(***************************************************************************)
(* int32 arithmetic wraps around modulo 2^32.  The model checker's own     *)
(* integers are 32 bits wide, so the operations work on the two 16-bit     *)
(* halves of the two's complement representation.                          *)
(***************************************************************************)
Lo16(x) == x % 65536
Hi16(x) == (x \div 65536) % 65536
FromHalves(hi, lo) == (IF hi >= 32768 THEN hi - 65536 ELSE hi) * 65536 + lo

Add32(a, b) ==
    LET lo == Lo16(a) + Lo16(b)
        hi == Hi16(a) + Hi16(b) + (lo \div 65536)
    IN FromHalves(hi % 65536, lo % 65536)

\* a * b for 0 <= b <= 100 (a page size)
Mul32(a, b) ==
    LET lo == Lo16(a) * b
        hi == Hi16(a) * b + (lo \div 65536)
    IN FromHalves(hi % 65536, lo % 65536)

(***************************************************************************)
(* ListBooks                                                               *)
(***************************************************************************)
\* (page, pageSize) of the ListBooks requests
ListInputs == {<<0, 0>>, <<1, 1>>, <<2, 1>>}

DefaultPage(page) == IF page <= 0 THEN 1 ELSE page

DefaultPageSize(pageSize) ==
    IF pageSize <= 0 THEN 10
    ELSE IF pageSize > 100 THEN 100
    ELSE pageSize

ListBooks(p, page, pageSize) ==
    /\ CanCall(p)
    /\ Proceed(p, ListReq(page, pageSize))

\* the loop over the map: the books whose count lies in [start, end)
RECURSIVE ListCollect(_, _, _, _, _)
ListCollect(bks, order, count, start, end) ==
    IF order = << >> THEN << >>
    ELSE (IF count >= start /\ count < end THEN <<bks[Head(order)]>> ELSE << >>)
         \o ListCollect(bks, Tail(order), Add32(count, 1), start, end)

\* mutant: total counts the books of the page, not of the map
ListBooksLocked_pagetotal(p) ==
    /\ pc[p] = "cs"
    /\ req[p].op = "ListBooks"
    /\ LET page == DefaultPage(req[p].page)
           pageSize == DefaultPageSize(req[p].pageSize)
           start == Mul32(page - 1, pageSize)
           end == Add32(start, pageSize)
       IN \E order \in RangeOrders(books) :
            LET list == ListCollect(books, order, 0, start, end)
            IN Return(p, ListEntry(req[p], list, Len(list)))
    /\ UNCHANGED <<books, idCounter, heap>>

ListBooksLocked(p) ==
    /\ pc[p] = "cs"
    /\ req[p].op = "ListBooks"
    /\ LET page == DefaultPage(req[p].page)
           pageSize == DefaultPageSize(req[p].pageSize)
           total == Cardinality(DOMAIN books)
           start == Mul32(page - 1, pageSize)
           end == Add32(start, pageSize)
       IN \E order \in RangeOrders(books) :
            Return(p, ListEntry(req[p], ListCollect(books, order, 0, start, end), total))
    /\ UNCHANGED <<books, idCounter, heap>>

(***************************************************************************)
(* SearchBooksByPrice                                                      *)
(***************************************************************************)
\* (minPrice, maxPrice) of the SearchBooksByPrice requests
SearchInputs == {<<F(0 - 1), F(5000)>>, <<F(3999), F(2999)>>, <<F(2999), F(3999)>>}

\* mutant: an empty interval minPrice = maxPrice is rejected
SearchValidate_strict(minPrice, maxPrice) ==
    IF FLt(minPrice, F(0)) THEN "minPrice"
    ELSE IF FLeq(maxPrice, minPrice) THEN "maxPrice"
    ELSE ""

SearchValidate(minPrice, maxPrice) ==
    IF FLt(minPrice, F(0)) THEN "minPrice"
    ELSE IF FLt(maxPrice, minPrice) THEN "maxPrice"
    ELSE ""

SearchBooksByPrice(p, minPrice, maxPrice) ==
    /\ CanCall(p)
    /\ LET msg == SearchValidate(minPrice, maxPrice) IN
       IF msg # ""
       THEN Fail(p, SearchEntry(InvalidArgument, msg, minPrice, maxPrice, << >>))
       ELSE Proceed(p, SearchReq(minPrice, maxPrice))

\* mutant: the interval is open at both ends
RECURSIVE SearchCollect_open(_, _, _, _, _)
SearchCollect_open(bks, hp, order, minPrice, maxPrice) ==
    IF order = << >> THEN << >>
    ELSE LET price == hp[bks[Head(order)]].price
         IN (IF FLt(minPrice, price) /\ FLt(price, maxPrice)
             THEN <<bks[Head(order)]>> ELSE << >>)
            \o SearchCollect_open(bks, hp, Tail(order), minPrice, maxPrice)

\* the loop over the map: the books whose price lies in [minPrice, maxPrice]
RECURSIVE SearchCollect(_, _, _, _, _)
SearchCollect(bks, hp, order, minPrice, maxPrice) ==
    IF order = << >> THEN << >>
    ELSE LET price == hp[bks[Head(order)]].price
         IN (IF FLeq(minPrice, price) /\ FLeq(price, maxPrice)
             THEN <<bks[Head(order)]>> ELSE << >>)
            \o SearchCollect(bks, hp, Tail(order), minPrice, maxPrice)

SearchBooksByPriceLocked(p) ==
    /\ pc[p] = "cs"
    /\ req[p].op = "SearchBooksByPrice"
    /\ \E order \in RangeOrders(books) :
         Return(p, SearchEntry(OK, "", req[p].minPrice, req[p].maxPrice,
                    SearchCollect(books, heap, order, req[p].minPrice, req[p].maxPrice)))
    /\ UNCHANGED <<books, idCounter, heap>>

Next ==
    \/ \E p \in Procs, b \in Refs : CreateBook(p, b)
    \/ \E p \in Procs, id \in InputIds : GetBook(p, id)
    \/ \E p \in Procs, b \in Refs : UpdateBook(p, b)
    \/ \E p \in Procs, id \in InputIds : DeleteBook(p, id)
    \/ \E p \in Procs, a \in ListInputs : ListBooks(p, a[1], a[2])
    \/ \E p \in Procs, a \in SearchInputs : SearchBooksByPrice(p, a[1], a[2])
    \/ \E p \in Procs : LockPending(p)
    \/ \E p \in Procs : Lock(p)
    \/ \E p \in Procs : RLock(p)
    \/ \E p \in Procs : CreateBookLocked(p)
    \/ \E p \in Procs : GetBookLocked(p)
    \/ \E p \in Procs : UpdateBookLocked(p)
    \/ \E p \in Procs : DeleteBookLocked(p)
    \/ \E p \in Procs : ListBooksLocked(p)
    \/ \E p \in Procs : SearchBooksByPriceLocked(p)

Spec == Init /\ [][Next]_vars

(***************************************************************************)
(* The queries on their own: one caller, a store that holds the first k    *)
(* of the books of QueryBooks, created one after the other, and requests   *)
(* over the whole range of page, pageSize and prices.                      *)
(***************************************************************************)
QueryBooks ==
    << Book("", "cheap", "a1", F(1999), "d1", 2023),
       Book("", "middle", "a2", F(3999), "d2", 2024),
       Book("", "dear", "a3", F(5999), "d3", 2025),
       Book("", "odd", "a4", NaN, "d4", 2026) >>

QueryPages == {0, 1, 2, 3, 67108865}
QueryPageSizes == {0 - 1, 1, 2, 10, 64, 1000}
QueryPrices == {F(0 - 1), F(0), F(1999), F(3000), F(3999), F(5000), NaN}
QueryIds == {"book-1", "book-2"}

\* the store after CreateBook of QueryBooks[1], ..., QueryBooks[k]
InitQuery ==
    \E k \in 0..Len(QueryBooks) :
      LET id(i) == generateID(i - 1).id
          e(i) == Entry("CreateBook", OK, "", id(i), i, QueryBooks[i])
      IN /\ heap = [i \in 1..Len(QueryBooks) |->
                     IF i <= k THEN [QueryBooks[i] EXCEPT !.id = id(i)] ELSE QueryBooks[i]]
         /\ books = [x \in {id(i) : i \in 1..k} |-> CHOOSE i \in 1..k : id(i) = x]
         /\ idCounter = k
         /\ created = [i \in 1..k |-> e(i)]
         /\ last = IF k = 0 THEN NoEntry ELSE e(k)
         /\ lastWrite = IF k = 0 THEN NoEntry ELSE e(k)
         /\ mu = [writer |-> 0, readers |-> {}]
         /\ pc = [p \in Procs |-> "idle"]
         /\ req = [p \in Procs |-> NoReq]
         /\ ncalls = 0
         /\ deleted = [x \in {} |-> 0]
         /\ updated = {}
         /\ failedCreates = 0

NextQuery ==
    \/ \E page \in QueryPages, pageSize \in QueryPageSizes : ListBooks(1, page, pageSize)
    \/ \E minPrice \in QueryPrices, maxPrice \in QueryPrices :
         SearchBooksByPrice(1, minPrice, maxPrice)
    \/ \E id \in QueryIds : DeleteBook(1, id)
    \/ LockPending(1)
    \/ Lock(1)
    \/ RLock(1)
    \/ ListBooksLocked(1)
    \/ SearchBooksByPriceLocked(1)
    \/ DeleteBookLocked(1)

SpecQuery == InitQuery /\ [][NextQuery]_vars

(***************************************************************************)
(* Properties                                                              *)
(***************************************************************************)
\* a step in which a call returns; last' is then what it returned
ReturnStep ==
    \/ ncalls' = ncalls + 1 /\ pc' = pc
    \/ \E p \in Procs : pc[p] = "cs" /\ pc'[p] = "idle"

CreatedIds == {created[i].id : i \in DOMAIN created}

\* the fields of a Book other than its id
Payload(book) ==
    <<book.title, book.author, book.price, book.description, book.publishYear>>

PairwiseDistinct ==
    \A i, j \in DOMAIN created : i # j => created[i].id # created[j].id

\* C1 as stated: the ids returned by the successful CreateBook calls are pairwise
\* distinct and, as long as no DeleteBook of an id has succeeded, GetBook on it
\* succeeds and returns the Book that the call stored, with the payload it passed.
C1_Original ==
    /\ PairwiseDistinct
    /\ \A i \in DOMAIN created :
         created[i].id \notin DOMAIN deleted =>
           LET r == GetBookLookup(books, created[i].id)
           IN /\ r.code = OK
              /\ r.book = created[i].book
              /\ Payload(heap[r.book]) = Payload(created[i].input)

\* C1 amended: the ids returned by the successful CreateBook calls are pairwise
\* distinct and, as long as neither a DeleteBook nor an UpdateBook of an id has
\* succeeded, GetBook on it succeeds and returns the Book that the call stored,
\* with the payload it passed.
C1_DistinctAndRetrievable ==
    /\ PairwiseDistinct
    /\ \A i \in DOMAIN created :
         (created[i].id \notin DOMAIN deleted /\ created[i].id \notin updated) =>
           LET r == GetBookLookup(books, created[i].id)
           IN /\ r.code = OK
              /\ r.book = created[i].book
              /\ Payload(heap[r.book]) = Payload(created[i].input)

\* two CreateBook calls with different Books have returned and both ids are
\* in the map
C1_Witness ==
    /\ Len(created) = 2
    /\ created[1].id # created[2].id
    /\ {created[1].id, created[2].id} \subseteq DOMAIN books
    /\ books[created[1].id] # books[created[2].id]

\* C2: the counter never decreases, only a successful CreateBook changes it, and
\* the id a successful CreateBook returns was returned by no earlier CreateBook,
\* deleted or not.
C2_NeverReused ==
    [][/\ idCounter' >= idCounter
       /\ (Len(created') = Len(created) => idCounter' = idCounter)
       /\ (Len(created') > Len(created) =>
             /\ ReturnStep /\ last'.op = "CreateBook" /\ last'.code = OK
             /\ last'.id \notin CreatedIds
             /\ last'.id \notin DOMAIN deleted)]_vars

\* create A, delete A, create B: B has returned with another id
C2_Witness ==
    /\ Len(created) = 2
    /\ created[1].id \in DOMAIN deleted
    /\ lastWrite.op = "CreateBook"
    /\ lastWrite.id = created[2].id

\* C3: every key of the map maps to a Book whose id field is that key.
C3_KeyIsId ==
    \A k \in DOMAIN books : heap[books[k]].id = k

\* C4: the k-th successful CreateBook returns "book-k", whatever number of
\* CreateBook calls failed before it.
C4_KthCreate ==
    \A k \in DOMAIN created : created[k].id = "book-" \o ToString(k)

\* a CreateBook has succeeded after a CreateBook was rejected
C4_Witness ==
    /\ failedCreates > 0
    /\ lastWrite.op = "CreateBook"
    /\ last = lastWrite
    /\ Len(created) = 1

\* C5: a call that returns InvalidArgument or NotFound leaves the map, the
\* counter and the stored Books as they were; a CreateBook with an empty title
\* returns InvalidArgument, and as long as no CreateBook has succeeded ListBooks
\* reports total = 0.
C5_ErrorsChangeNothing ==
    [][ReturnStep =>
         /\ (last'.code \in {InvalidArgument, NotFound} =>
               /\ books' = books
               /\ idCounter' = idCounter
               /\ heap' = heap)
         /\ (last'.op = "CreateBook" /\ last'.input.title = "" =>
               last'.code = InvalidArgument)
         /\ (last'.op = "ListBooks" /\ created = << >> => last'.total = 0)]_vars

\* ListBooks has answered total = 0 after a rejected CreateBook
C5_Witness ==
    /\ failedCreates > 0
    /\ created = << >>
    /\ last.op = "ListBooks"
    /\ last.total = 0

C7_ExactlyOneDelete ==
    [][(ReturnStep /\ last'.op = "DeleteBook" /\ last'.id \in CreatedIds) =>
         IF last'.id \in DOMAIN deleted
         THEN last'.code = NotFound /\ deleted' = deleted
         ELSE last'.code = OK /\ deleted'[last'.id] = 1]_vars

\* a second DeleteBook of an id has returned NotFound
C7_Witness ==
    /\ last.op = "DeleteBook"
    /\ last.code = NotFound
    /\ last.id \in DOMAIN deleted
    /\ deleted[last.id] = 1

\* C8: as long as no UpdateBook or DeleteBook of the id a CreateBook returned
\* has succeeded, GetBook of the id returns a Book with that id and with the
\* title, author, price, description and publishYear passed to the CreateBook.
C8_RoundTrip ==
    \A i \in DOMAIN created :
        (created[i].id \notin DOMAIN deleted /\ created[i].id \notin updated) =>
           LET r == GetBookLookup(books, created[i].id)
           IN /\ r.code = OK
              /\ heap[r.book] = [created[i].input EXCEPT !.id = created[i].id]

\* C9: while a successful UpdateBook is the last write, the Book stored under
\* its id is the Book it passed, field by field, and a GetBook of that id
\* returns it.
C9_UpdateOverwrites ==
    /\ lastWrite.op = "UpdateBook" =>
         LET r == GetBookLookup(books, lastWrite.id)
         IN /\ r.code = OK
            /\ r.book = lastWrite.book
            /\ heap[r.book] = lastWrite.input
            /\ lastWrite.input.id = lastWrite.id
    /\ (lastWrite.op = "UpdateBook" /\ last.op = "GetBook" /\ last.id = lastWrite.id) =>
         /\ last.code = OK
         /\ last.book = lastWrite.book
         /\ last.input = lastWrite.input

\* a GetBook has returned after an UpdateBook that changed every field of
\* the created Book
C9_Witness ==
    /\ lastWrite.op = "UpdateBook"
    /\ last.op = "GetBook"
    /\ last.id = lastWrite.id
    /\ \E i \in DOMAIN created :
         /\ created[i].id = last.id
         /\ created[i].input.title # last.input.title
         /\ created[i].input.author # last.input.author
         /\ created[i].input.price # last.input.price
         /\ created[i].input.description # last.input.description
         /\ created[i].input.publishYear # last.input.publishYear

\* C10: an UpdateBook, whatever it returns, leaves the set of ids in the map
\* and the counter as they were; one that passes validation returns NotFound
\* exactly if its id is absent, so it succeeds for no deleted id.
C10_UpdateKeepsKeys ==
    [][(ReturnStep /\ last'.op = "UpdateBook") =>
         /\ DOMAIN books' = DOMAIN books
         /\ idCounter' = idCounter
         /\ (last'.code # InvalidArgument =>
               /\ last'.code \in {OK, NotFound}
               /\ (last'.code = NotFound <=> last'.id \notin DOMAIN books))
         /\ (last'.id \in DOMAIN deleted => last'.code # OK)]_vars

\* an UpdateBook of an id deleted by a DeleteBook has returned NotFound
C10_Witness ==
    /\ last.op = "UpdateBook"
    /\ last.code = NotFound
    /\ last.id \in DOMAIN deleted
    /\ lastWrite.op = "DeleteBook"
    /\ lastWrite.id = last.id

(***************************************************************************)
(* Fair scheduling: each call runs in a goroutine of its own, and the Go    *)
(* scheduler runs every goroutine that can take a step; a goroutine blocked *)
(* in Lock or RLock is woken when the lock is handed to it.  The callers    *)
(* start a finite number of calls (MaxCalls) over a few requests.           *)
(***************************************************************************)
LiveRefs == {1, 2, 4}
LiveIds == {"", "book-1"}
LiveList == <<1, 1>>
LiveSearch == <<F(2999), F(3999)>>

\* the steps of the call that process p is running
ProcStep(p) ==
    \/ LockPending(p)
    \/ Lock(p)
    \/ RLock(p)
    \/ CreateBookLocked(p)
    \/ GetBookLocked(p)
    \/ UpdateBookLocked(p)
    \/ DeleteBookLocked(p)
    \/ ListBooksLocked(p)
    \/ SearchBooksByPriceLocked(p)

NextLive ==
    \/ \E p \in Procs, b \in LiveRefs : CreateBook(p, b)
    \/ \E p \in Procs, id \in LiveIds : GetBook(p, id)
    \/ \E p \in Procs, b \in LiveRefs : UpdateBook(p, b)
    \/ \E p \in Procs, id \in LiveIds : DeleteBook(p, id)
    \/ \E p \in Procs : ListBooks(p, LiveList[1], LiveList[2])
    \/ \E p \in Procs : SearchBooksByPrice(p, LiveSearch[1], LiveSearch[2])
    \/ \E p \in Procs : ProcStep(p)

SpecLive ==
    /\ Init
    /\ [][NextLive]_vars
    /\ \A p \in Procs : WF_vars(ProcStep(p))

(***************************************************************************)
(* Readers that keep arriving: next to a finite number of CreateBook,      *)
(* UpdateBook and DeleteBook calls, GetBook, ListBooks and                 *)
(* SearchBooksByPrice calls with valid requests start again and again, on  *)
(* any free goroutine and outside the budget of calls.  Nothing forces a   *)
(* reader to arrive; the calls that have started are scheduled fairly.     *)
(***************************************************************************)
ReaderRequests ==
    { Req("GetBook", 0, "book-1"),
      ListReq(LiveList[1], LiveList[2]),
      SearchReq(LiveSearch[1], LiveSearch[2]) }

\* a query passes its validation and goes on to RLock
ReaderArrives(p, r) ==
    /\ pc[p] = "idle"
    /\ pc' = [pc EXCEPT ![p] = "lock"]
    /\ req' = [req EXCEPT ![p] = r]
    /\ UNCHANGED <<books, idCounter, mu, heap, ncalls, hist>>

NextProgress ==
    \/ \E p \in Procs : CreateBook(p, 1)
    \/ \E p \in Procs : UpdateBook(p, 2)
    \/ \E p \in Procs : DeleteBook(p, "book-1")
    \/ \E p \in Procs, r \in ReaderRequests : ReaderArrives(p, r)
    \/ \E p \in Procs : ProcStep(p)

SpecProgress ==
    /\ Init
    /\ [][NextProgress]_vars
    /\ \A p \in Procs : WF_vars(ProcStep(p))

(***************************************************************************)
(* The locked sections statement by statement.  A section of more than one *)
(* statement that reads or writes s.books, s.idCounter or the Book is      *)
(* split at each of them; pc is "cs" at the first statement, "cs2" and     *)
(* "cs3" at the next ones, and req[p] also holds the locals of the call.   *)
(* snap is a history component: the store as the section found it.         *)
(* GetBook and SearchBooksByPrice read the map in one statement.           *)
(***************************************************************************)
Snapshot == [books |-> books, idCounter |-> idCounter, heap |-> heap]

\* bookID := s.generateID()
CreateBookGenerate(p) ==
    /\ pc[p] = "cs"
    /\ req[p].op = "CreateBook"
    /\ LET g == generateID(idCounter)
       IN /\ idCounter' = g.idCounter
          /\ req' = [req EXCEPT ![p] = [bookID |-> g.id, snap |-> Snapshot] @@ @]
    /\ pc' = [pc EXCEPT ![p] = "cs2"]
    /\ UNCHANGED <<books, mu, heap, ncalls, hist>>

\* book.Id = bookID
CreateBookSetId(p) ==
    /\ pc[p] = "cs2"
    /\ req[p].op = "CreateBook"
    /\ heap' = [heap EXCEPT ![req[p].book].id = req[p].bookID]
    /\ pc' = [pc EXCEPT ![p] = "cs3"]
    /\ UNCHANGED <<books, idCounter, mu, req, ncalls, hist>>

\* s.books[bookID] = book, and the return
CreateBookStore(p) ==
    /\ pc[p] = "cs3"
    /\ req[p].op = "CreateBook"
    /\ books' = Put(books, req[p].bookID, req[p].book)
    /\ Return(p, Entry("CreateBook", OK, "", req[p].bookID, req[p].book,
                       heap[req[p].book]))
    /\ UNCHANGED <<idCounter, heap>>

\* if _, exists := s.books[book.GetId()]; !exists
UpdateBookCheck(p) ==
    /\ pc[p] = "cs"
    /\ req[p].op = "UpdateBook"
    /\ LET b == req[p].book
           id == heap[b].id
       IN IF id \notin DOMAIN books
          THEN /\ Return(p, Entry("UpdateBook", NotFound, "", id, b, heap[b]))
               /\ UNCHANGED <<books, idCounter, heap>>
          ELSE /\ pc' = [pc EXCEPT ![p] = "cs2"]
               /\ req' = [req EXCEPT ![p] = [snap |-> Snapshot] @@ @]
               /\ UNCHANGED <<books, idCounter, mu, heap, ncalls, hist>>

\* s.books[book.GetId()] = book, and the return
UpdateBookPut(p) ==
    /\ pc[p] = "cs2"
    /\ req[p].op = "UpdateBook"
    /\ LET b == req[p].book
           id == heap[b].id
       IN /\ books' = Put(books, id, b)
          /\ Return(p, Entry("UpdateBook", OK, "", id, b, heap[b]))
    /\ UNCHANGED <<idCounter, heap>>

\* if _, exists := s.books[req.GetId()]; !exists
DeleteBookCheck(p) ==
    /\ pc[p] = "cs"
    /\ req[p].op = "DeleteBook"
    /\ IF req[p].id \notin DOMAIN books
       THEN /\ Return(p, Entry("DeleteBook", NotFound, "", req[p].id, 0, NoBook))
            /\ UNCHANGED <<books, idCounter, heap>>
       ELSE /\ pc' = [pc EXCEPT ![p] = "cs2"]
            /\ req' = [req EXCEPT ![p] = [snap |-> Snapshot] @@ @]
            /\ UNCHANGED <<books, idCounter, mu, heap, ncalls, hist>>

\* delete(s.books, req.GetId()), and the return
DeleteBookRemove(p) ==
    /\ pc[p] = "cs2"
    /\ req[p].op = "DeleteBook"
    /\ books' = [k \in DOMAIN books \ {req[p].id} |-> books[k]]
    /\ Return(p, Entry("DeleteBook", OK, "", req[p].id, 0, NoBook))
    /\ UNCHANGED <<idCounter, heap>>

\* total := int32(len(s.books))
ListBooksTotal(p) ==
    /\ pc[p] = "cs"
    /\ req[p].op = "ListBooks"
    /\ req' = [req EXCEPT ![p] =
                 [total |-> Cardinality(DOMAIN books), snap |-> Snapshot] @@ @]
    /\ pc' = [pc EXCEPT ![p] = "cs2"]
    /\ UNCHANGED <<books, idCounter, mu, heap, ncalls, hist>>

\* the loop over the map, and the return
ListBooksRange(p) ==
    /\ pc[p] = "cs2"
    /\ req[p].op = "ListBooks"
    /\ LET page == DefaultPage(req[p].page)
           pageSize == DefaultPageSize(req[p].pageSize)
           start == Mul32(page - 1, pageSize)
           end == Add32(start, pageSize)
       IN \E order \in RangeOrders(books) :
            Return(p, ListEntry(req[p], ListCollect(books, order, 0, start, end),
                                req[p].total))
    /\ UNCHANGED <<books, idCounter, heap>>

\* the statements of the call that process p is running
FineStep(p) ==
    \/ LockPending(p)
    \/ Lock(p)
    \/ RLock(p)
    \/ CreateBookGenerate(p)
    \/ CreateBookSetId(p)
    \/ CreateBookStore(p)
    \/ GetBookLocked(p)
    \/ UpdateBookCheck(p)
    \/ UpdateBookPut(p)
    \/ DeleteBookCheck(p)
    \/ DeleteBookRemove(p)
    \/ ListBooksTotal(p)
    \/ ListBooksRange(p)
    \/ SearchBooksByPriceLocked(p)

NextFine ==
    \/ \E p \in Procs, b \in LiveRefs : CreateBook(p, b)
    \/ \E p \in Procs, id \in LiveIds : GetBook(p, id)
    \/ \E p \in Procs, b \in LiveRefs : UpdateBook(p, b)
    \/ \E p \in Procs, id \in LiveIds : DeleteBook(p, id)
    \/ \E p \in Procs : ListBooks(p, 0, 0)
    \/ \E p \in Procs : SearchBooksByPrice(p, LiveSearch[1], LiveSearch[2])
    \/ \E p \in Procs : FineStep(p)

SpecFine == Init /\ [][NextFine]_vars

(***************************************************************************)
(* Properties of the lock                                                  *)
(***************************************************************************)
InLocked(p) == pc[p] = "cs"

\* C18: while CreateBook, UpdateBook or DeleteBook is inside its locked
\* section no other call is inside its locked section.
C18_MutualExclusion ==
    \A p \in Procs :
        InLocked(p) /\ IsWriter(req[p].op) =>
            \A q \in Procs \ {p} : ~InLocked(q)

\* a writer is inside its locked section while a reader is held back at
\* the lock
C18_Witness ==
    \E p \in Procs, q \in Procs :
        /\ InLocked(p)
        /\ IsWriter(req[p].op)
        /\ pc[q] = "lock"
        /\ ~IsWriter(req[q].op)

\* two readers are inside their locked sections at the same time
C18_ReadersShare ==
    \E p \in Procs, q \in Procs :
        /\ p # q
        /\ InLocked(p) /\ ~IsWriter(req[p].op)
        /\ InLocked(q) /\ ~IsWriter(req[q].op)

Pending(p) == pc[p] # "idle"

HoldsLock(p) == mu.writer = p \/ p \in mu.readers

\* C19: every call that has started returns and has then released the lock,
\* and in no state are all the pending calls blocked.
C19_EveryCallReturns ==
    /\ []((\E p \in Procs : Pending(p)) => \E p \in Procs : ENABLED ProcStep(p))
    /\ \A p \in Procs : Pending(p) ~> (~Pending(p) /\ ~HoldsLock(p))

\* a writer waits for the lock that a reader holds, while that reader is
\* inside its locked section
C19_Witness ==
    \E p \in Procs, q \in Procs :
        /\ pc[p] = "wait"
        /\ q \in mu.readers
        /\ InLocked(q)

WriterWaiting(p) == pc[p] \in {"lock", "wait"} /\ IsWriter(req[p].op)

WriterPending(p) == Pending(p) /\ IsWriter(req[p].op)

\* C20: a CreateBook, UpdateBook or DeleteBook call that waits for the
\* exclusive lock stops waiting (the only step out of the wait is Lock
\* returning) and then completes, also when readers never stop arriving.
\* "Waiting leads to not waiting" is written []<>~Waiting.
C20_WriterProgress ==
    \A p \in Procs :
        /\ []<>~WriterWaiting(p)
        /\ []<>~WriterPending(p)

\* after a reader has returned, a writer has called Lock and waits, and
\* the next reader has arrived and is held at RLock
C20_Witness ==
    \E p \in Procs, q \in Procs :
        /\ pc[p] = "wait"
        /\ pc[q] = "lock"
        /\ ~IsWriter(req[q].op)
        /\ last.op \in {"GetBook", "ListBooks", "SearchBooksByPrice"}
        /\ last.code = OK

(***************************************************************************)
(* The validation on its own: one caller and requests whose Books take     *)
(* every combination of a missing, absent or present id, a missing or      *)
(* given title and author, and a negative, zero, positive or NaN price.    *)
(***************************************************************************)
ValidationIds == <<"", "book-1", "book-9">>
ValidationNames == <<"", "Go">>
ValidationPrices == <<F(0 - 1), F(0), F(2999), NaN>>

ValidationBooks ==
    [i \in 1..(Len(ValidationIds) * Len(ValidationNames) * Len(ValidationNames)
                * Len(ValidationPrices)) |->
        LET n == i - 1
            a == n % Len(ValidationIds)
            b == (n \div Len(ValidationIds)) % Len(ValidationNames)
            c == (n \div (Len(ValidationIds) * Len(ValidationNames))) % Len(ValidationNames)
            d == n \div (Len(ValidationIds) * Len(ValidationNames) * Len(ValidationNames))
        IN Book(ValidationIds[a + 1], ValidationNames[b + 1], ValidationNames[c + 1],
                ValidationPrices[d + 1], "", 2023)]

InitValidate ==
    /\ books = [k \in {} |-> 0]
    /\ idCounter = 0
    /\ mu = [writer |-> 0, readers |-> {}]
    /\ heap = ValidationBooks
    /\ pc = [p \in Procs |-> "idle"]
    /\ req = [p \in Procs |-> NoReq]
    /\ ncalls = 0
    /\ last = NoEntry
    /\ lastWrite = NoEntry
    /\ created = << >>
    /\ deleted = [k \in {} |-> 0]
    /\ updated = {}
    /\ failedCreates = 0

NextValidate ==
    \/ \E b \in DOMAIN ValidationBooks : CreateBook(1, b)
    \/ \E b \in DOMAIN ValidationBooks : UpdateBook(1, b)
    \/ \E i \in DOMAIN ValidationIds : GetBook(1, ValidationIds[i])
    \/ \E i \in DOMAIN ValidationIds : DeleteBook(1, ValidationIds[i])
    \/ LockPending(1)
    \/ Lock(1)
    \/ RLock(1)
    \/ CreateBookLocked(1)
    \/ UpdateBookLocked(1)
    \/ GetBookLocked(1)
    \/ DeleteBookLocked(1)

SpecValidate == InitValidate /\ [][NextValidate]_vars

(***************************************************************************)
(* Properties of the validation                                            *)
(***************************************************************************)
\* C15: every Book in the map has a title, an author and a price > 0.
C15_StoredBooksValid ==
    \A k \in DOMAIN books :
        /\ heap[books[k]].title # ""
        /\ heap[books[k]].author # ""
        /\ FLt(F(0), heap[books[k]].price)

\* the first check, in the order given, that the Book fails: "" if none
FirstFailing(book, checks) ==
    LET fails(c) ==
            CASE c = "id" -> book.id = ""
              [] c = "title" -> book.title = ""
              [] c = "author" -> book.author = ""
              [] c = "price" -> FLeq(book.price, F(0))
        failing == {i \in DOMAIN checks : fails(checks[i])}
    IN IF failing = {} THEN ""
       ELSE checks[CHOOSE i \in failing : \A j \in failing : i <= j]

\* C16: CreateBook checks title, author, price and UpdateBook id, title,
\* author, price; the call returns InvalidArgument for the first check that
\* fails, whether the id is in the map or not, and GetBook and DeleteBook
\* return InvalidArgument for an empty id; a request that passes the checks
\* does not return InvalidArgument.
C16_ValidationOrder ==
    [][ReturnStep =>
         /\ (last'.op = "CreateBook" =>
               LET f == FirstFailing(last'.input, <<"title", "author", "price">>)
               IN IF f = "" THEN last'.code = OK
                  ELSE last'.code = InvalidArgument /\ last'.msg = f)
         /\ (last'.op = "UpdateBook" =>
               LET f == FirstFailing(last'.input, <<"id", "title", "author", "price">>)
               IN IF f = "" THEN last'.code \in {OK, NotFound}
                  ELSE last'.code = InvalidArgument /\ last'.msg = f)
         /\ (last'.op \in {"GetBook", "DeleteBook"} =>
               IF last'.id = "" THEN last'.code = InvalidArgument /\ last'.msg = "id"
               ELSE last'.code \in {OK, NotFound})]_vars

\* an UpdateBook without title and author, for an id that is not in the map,
\* has returned InvalidArgument for the title
C16_Witness ==
    /\ last.op = "UpdateBook"
    /\ last.input.id \notin DOMAIN books
    /\ last.input.id # ""
    /\ last.input.title = ""
    /\ last.input.author = ""
    /\ last.code = InvalidArgument
    /\ last.msg = "title"

(***************************************************************************)
(* Properties of the queries                                               *)
(***************************************************************************)
\* the page and the page size a ListBooks request stands for
EffectivePage(page) == IF page <= 0 THEN 1 ELSE page
EffectiveSize(pageSize) ==
    IF pageSize <= 0 THEN 10 ELSE IF pageSize > 100 THEN 100 ELSE pageSize

\* (p - 1) * s > T, without forming the product
BeyondEnd(p, s, T) == p - 1 > T \div s

\* min(s, max(0, T - (p - 1) * s))
ExpectedLen(p, s, T) ==
    IF p - 1 > T \div s THEN 0
    ELSE IF T - (p - 1) * s < s THEN T - (p - 1) * s ELSE s

Occurrences(list, x) == Cardinality({i \in DOMAIN list : list[i] = x})
StoredRefs(bks) == {bks[k] : k \in DOMAIN bks}

\* C11: ListBooks returns as total the number of records in the map at the
\* time it holds the read lock, for every page and pageSize.
C11_TotalIsCount ==
    [][(ReturnStep /\ last'.op = "ListBooks") =>
         /\ last'.code = OK
         /\ last'.total = Cardinality(DOMAIN books)]_vars

\* ListBooks(0, 1000) has answered on a store of three records
C11_Witness ==
    /\ last.op = "ListBooks"
    /\ last.page <= 0
    /\ last.pageSize > 100
    /\ Cardinality(DOMAIN books) = 3
    /\ last.total = 3

\* C12: when (p - 1) * s, for the effective page p and size s, exceeds the
\* number T of records, ListBooks returns no book and total = T.
C12_EmptyBeyondEnd ==
    [][(/\ ReturnStep
        /\ last'.op = "ListBooks"
        /\ BeyondEnd(EffectivePage(last'.page), EffectiveSize(last'.pageSize),
                     Cardinality(DOMAIN books)))
       => /\ last'.list = << >>
          /\ last'.total = Cardinality(DOMAIN books)]_vars

\* C13: ListBooks returns min(s, max(0, T - (p - 1) * s)) books, each of them
\* in the map and none twice, and total = T.
C13_PageContent ==
    [][(ReturnStep /\ last'.op = "ListBooks") =>
         LET T == Cardinality(DOMAIN books)
             list == last'.list
         IN /\ Len(list) = ExpectedLen(EffectivePage(last'.page),
                                        EffectiveSize(last'.pageSize), T)
            /\ \A i \in DOMAIN list : list[i] \in StoredRefs(books)
            /\ \A i, j \in DOMAIN list : i # j => list[i] # list[j]
            /\ last'.total = T]_vars

\* C14: for minPrice >= 0 and maxPrice >= minPrice, SearchBooksByPrice returns
\* each record of the map with minPrice <= price <= maxPrice once, and
\* nothing else.
C14_RangeFilter ==
    [][(/\ ReturnStep
        /\ last'.op = "SearchBooksByPrice"
        /\ FLeq(F(0), last'.minPrice)
        /\ FLeq(last'.minPrice, last'.maxPrice))
       => LET list == last'.list
              Match(k) == /\ FLeq(last'.minPrice, heap[books[k]].price)
                          /\ FLeq(heap[books[k]].price, last'.maxPrice)
          IN /\ last'.code = OK
             /\ \A k \in DOMAIN books :
                  Occurrences(list, books[k]) = IF Match(k) THEN 1 ELSE 0
             /\ \A i \in DOMAIN list : list[i] \in StoredRefs(books)
             /\ Len(list) = Cardinality({k \in DOMAIN books : Match(k)})]_vars

\* SearchBooksByPrice(19.99, 39.99) has returned the two books priced at the
\* ends of the interval, and not the others
C14_Witness ==
    /\ last.op = "SearchBooksByPrice"
    /\ last.minPrice = F(1999)
    /\ last.maxPrice = F(3999)
    /\ Cardinality(DOMAIN books) = 4
    /\ Len(last.list) = 2

\* C17: SearchBooksByPrice returns InvalidArgument when minPrice < 0 and when
\* maxPrice < minPrice, and succeeds otherwise, never with NotFound.
C17_SearchValidation ==
    [][(ReturnStep /\ last'.op = "SearchBooksByPrice") =>
         last'.code = IF \/ FLt(last'.minPrice, F(0))
                         \/ FLt(last'.maxPrice, last'.minPrice)
                      THEN InvalidArgument ELSE OK]_vars

\* SearchBooksByPrice(0, 0) has succeeded with an empty result
C17_Witness ==
    /\ last.op = "SearchBooksByPrice"
    /\ last.minPrice = F(0)
    /\ last.maxPrice = F(0)
    /\ last.code = OK
    /\ last.list = << >>
    /\ books # << >>

(***************************************************************************)
(* Properties of the counter and the keys                                  *)
(***************************************************************************)
\* the keys generateID has produced so far
GeneratedKeys == {generateID(k - 1).id : k \in 1..idCounter}

RECURSIVE SumOver(_, _)
SumOver(f, S) ==
    IF S = {} THEN 0
    ELSE LET x == CHOOSE y \in S : TRUE
         IN f[x] + SumOver(f, S \ {x})

\* C22: the counter is the number of CreateBook calls that have succeeded,
\* every key of the map is "book-k" with 1 <= k <= counter, and the number
\* of records is the number of successful creates less the number of
\* successful deletes.
C22_CounterAndKeys ==
    /\ idCounter = Len(created)
    /\ DOMAIN books \subseteq GeneratedKeys
    /\ Cardinality(DOMAIN books) = Len(created) - SumOver(deleted, DOMAIN deleted)
    /\ Cardinality(DOMAIN books) <= idCounter

\* two creates and then a delete have succeeded: one record is left under
\* a generated key and the counter stays at two
C22_Witness ==
    /\ Len(created) = 2
    /\ last.op = "DeleteBook"
    /\ last.code = OK
    /\ Cardinality(DOMAIN books) = 1
    /\ idCounter = 2

(***************************************************************************)
(* Properties of the statement-by-statement sections                       *)
(***************************************************************************)
InSection(p) == pc[p] \in {"cs", "cs2", "cs3"}

\* the store as the section of p found it
Found(p) == IF "snap" \in DOMAIN req[p] THEN req[p].snap ELSE Snapshot

\* a writer inside its section has the store to itself
SectionExclusion ==
    \A p \in Procs :
        InSection(p) /\ IsWriter(req[p].op) =>
            \A q \in Procs \ {p} : ~InSection(q)

\* the store changes only by a statement of a writer inside its section
ChangesInSection ==
    (books' # books \/ idCounter' # idCounter \/ heap' # heap) =>
        \E p \in Procs : InSection(p) /\ IsWriter(req[p].op) /\ pc'[p] # pc[p]

\* when the section of p returns, the answer and the store are those of the
\* whole operation applied at once to the store the section found; the Book
\* that passed the validation before the lock passes it on that store too
AsIfAtOnce(p) ==
    LET r == req[p]
        S == Found(p)
        same == books' = S.books /\ idCounter' = S.idCounter /\ heap' = S.heap
    IN CASE r.op = "CreateBook" ->
              LET g == generateID(S.idCounter)
              IN /\ CreateBookValidate(S.heap[r.book]) = ""
                 /\ last'.code = OK /\ last'.id = g.id
                 /\ idCounter' = g.idCounter
                 /\ heap' = [S.heap EXCEPT ![r.book].id = g.id]
                 /\ books' = Put(S.books, g.id, r.book)
         [] r.op = "GetBook" ->
              LET g == GetBookLookup(S.books, r.id)
              IN last'.code = g.code /\ last'.book = g.book /\ same
         [] r.op = "UpdateBook" ->
              LET u == UpdateBookStore(S.books, S.heap[r.book].id, r.book)
              IN /\ UpdateBookValidate(S.heap[r.book]) = ""
                 /\ last'.code = u.code /\ last'.id = S.heap[r.book].id
                 /\ books' = u.books
                 /\ idCounter' = S.idCounter /\ heap' = S.heap
         [] r.op = "DeleteBook" ->
              LET d == DeleteBookStore(S.books, r.id)
              IN /\ last'.code = d.code
                 /\ books' = d.books
                 /\ idCounter' = S.idCounter /\ heap' = S.heap
         [] r.op = "ListBooks" ->
              LET page == DefaultPage(r.page)
                  pageSize == DefaultPageSize(r.pageSize)
                  start == Mul32(page - 1, pageSize)
              IN /\ last'.total = Cardinality(DOMAIN S.books)
                 /\ Len(last'.list) <= last'.total
                 /\ \E order \in RangeOrders(S.books) :
                      last'.list = ListCollect(S.books, order, 0, start,
                                               Add32(start, pageSize))
                 /\ same
         [] r.op = "SearchBooksByPrice" ->
              /\ \E order \in RangeOrders(S.books) :
                   last'.list = SearchCollect(S.books, S.heap, order,
                                              r.minPrice, r.maxPrice)
              /\ same

\* C21: every operation takes effect at once at a point between its call
\* and its return: a writer's section runs alone, the store changes nowhere
\* else, and each section returns what the whole operation gives on the
\* store it found, so ListBooks returns a total and a list of one and the
\* same state and never more records than total.
C21_Linearizable ==
    /\ []SectionExclusion
    /\ [][ChangesInSection]_vars
    /\ [][\A p \in Procs : (InSection(p) /\ pc'[p] = "idle") => AsIfAtOnce(p)]_vars

\* ListBooks has read total and not yet run its loop, with a record in the
\* map, while a CreateBook, UpdateBook or DeleteBook waits for the lock
C21_Witness ==
    \E p \in Procs, q \in Procs :
        /\ pc[p] = "cs2"
        /\ req[p].op = "ListBooks"
        /\ req[p].total >= 1
        /\ pc[q] = "wait"

====
